---- MODULE Spec2Model ----
(***************************************************************************)
(* Model of utils/other_tools/Clear_card.py: class ProjectCleaner.         *)
(*                                                                         *)
(* One call of one public method of ProjectCleaner is modelled per         *)
(* behaviour.  The two backends are the environment: every HTTP round trip *)
(* is a request step of the program followed by a response step in which   *)
(* the backend picks the outcome (transport error, or a status code and a  *)
(* body).  The bodies of the six methods are translated statement by       *)
(* statement; Python values that decide a branch (truthiness, ==, dict     *)
(* membership, dict.get) are computed the way Python computes them.        *)
(***************************************************************************)
EXTENDS Integers, Sequences, FiniteSets, TLC

\* Largest number of entries the backend puts in `data` / `records`.
MaxRecords == 3

--------------------------------------------------------------------------
(* JSON values as Python sees them after response.json().                  *)

JNull == [t |-> "null", s |-> "", n |-> 0]
JStr(x) == [t |-> "str", s |-> x, n |-> 0]
JInt(k) == [t |-> "int", s |-> "", n |-> k]
\* Python bool is a subclass of int: False has the numeric value 0.
JBool(b) == [t |-> "bool", s |-> "", n |-> IF b THEN 1 ELSE 0]

\* `if project_id:` / `if task_id:` -- Python truth value of a JSON value.
TruthyMut(v) == v.t # "null"
Truthy(v) ==
  CASE v.t = "null" -> FALSE
    [] v.t = "str" -> v.s # ""
    [] OTHER -> v.n # 0

\* `record['completeState'] == 0` -- Python ==: numbers compare by value
\* (False == 0 is True), every other type is unequal to 0.
PyEqZeroMut(v) == v.t \in {"int", "bool"} /\ v.n >= 0
PyEqZero(v) == v.t \in {"int", "bool"} /\ v.n = 0

\* A dict is a set of <<key, value>> pairs with distinct keys.
HasKeyMut(d, k) == TRUE
HasKey(d, k) == \E p \in d : p[1] = k
\* dict.get(k): the value, or None when the key is absent.
Get(d, k) == IF \E p \in d : p[1] = k THEN (CHOOSE p \in d : p[1] = k)[2] ELSE JNull

\* Values the backend may send for the two fields the code reads.
SerialVals == {JNull, JStr(""), JStr("A"), JStr("B")}
StateVals == {JInt(0), JInt(1), JBool(FALSE)}

\* Entries of `response.data` (fusion projects): serialNumber present or not.
ProjectDicts == {{}} \cup {{<<"serialNumber", v>>} : v \in SerialVals}
\* Entries of `response.data.records` (workflow): each field present or not.
TaskDicts ==
  {a \cup b : a \in ProjectDicts,
              b \in {{}} \cup {{<<"completeState", c>>} : c \in StateVals}}

SeqsUpTo(S, n) == UNION {[1..m -> S] : m \in 0..n}

--------------------------------------------------------------------------
(* HTTP outcomes.                                                          *)

\* A JSON body: whether it parses, and each level of the envelope.
MkBody(j, r, d, rc, it) ==
  [json |-> j, response |-> r, data |-> d, records |-> rc, items |-> it]
NoBody == MkBody(FALSE, "missing", "missing", "missing", <<>>)

\* Bodies whose envelope is broken somewhere, so that they carry no entries.
BrokenBodies ==
  {NoBody}
  \cup {MkBody(TRUE, r, "missing", "missing", <<>>) : r \in {"missing", "null"}}
  \cup {MkBody(TRUE, "present", d, "missing", <<>>) : d \in {"missing", "null"}}
  \cup {MkBody(TRUE, "present", "present", rc, <<>>) : rc \in {"missing", "null"}}

Bodies(dicts) ==
  BrokenBodies
  \cup {MkBody(TRUE, "present", "present", "present", it) : it \in SeqsUpTo(dicts, MaxRecords)}

StatusCodes == {200, 304, 404, 500}

MkResp(e, st, b) == [err |-> e, status |-> st, body |-> b]
NoResponse == MkResp(FALSE, 0, NoBody)
TransportError == MkResp(TRUE, 0, NoBody)

\* What requests.post can produce for a list request.
ListResponses(dicts) ==
  {TransportError}
  \cup {MkResp(FALSE, st, NoBody) : st \in {404, 500}}
  \cup {MkResp(FALSE, st, b) : st \in {200, 304}, b \in Bodies(dicts)}

\* What requests.post can produce for a revoke/abort request (body unread).
ActResponses == {TransportError} \cup {MkResp(FALSE, st, NoBody) : st \in StatusCodes}

\* response.raise_for_status(): HTTPError for a 4xx or 5xx status only.
RaisesForStatus(st) == 400 <= st /\ st < 600

\* Exception classes derived from requests.exceptions.RequestException.
IsRequestExceptionMut(e) == e \in {"HTTPError"}
IsRequestException(e) ==
  e \in {"ConnectionError", "HTTPError", "requests.JSONDecodeError"}

\* requests.post(...) then response.raise_for_status(): the exception
\* raised, "" when none.
PostExc(resp) ==
  IF resp.err THEN "ConnectionError"
  ELSE IF RaisesForStatus(resp.status) THEN "HTTPError"
  ELSE ""

--------------------------------------------------------------------------
(* Results of a Python call: a value or a propagating exception.           *)

Ok(v) == [raised |-> FALSE, exc |-> "", value |-> v]
Raise(e) == [raised |-> TRUE, exc |-> e, value |-> <<>>]

Log(level, msg) == [level |-> level, msg |-> msg]

SerialOf(d) == Get(d, "serialNumber")
\* [x.get("serialNumber") for x in s]
Serials(s) == [j \in 1..Len(s) |-> SerialOf(s[j])]

\* [project.get("serialNumber") for project in projects if "serialNumber" in project]
ProjectSerials(projects) ==
  Serials(SelectSeq(projects, LAMBDA d : HasKey(d, "serialNumber")))

\* [record for record in records if record['completeState'] == 0]
ActiveRecords(records) ==
  SelectSeq(records, LAMBDA d : PyEqZero(Get(d, "completeState")))

\* [record.get("serialNumber") for record in records]
TaskSerialsMut(records) ==
  SelectSeq(Serials(records), LAMBDA v : Truthy(v))
TaskSerials(records) == Serials(records)

\* The try body of get_fusion_projects_by_code after a response that passed
\* raise_for_status; jsonExc is the class response.json() raises on a body
\* that is not JSON (it depends on the installed requests version).
ProjectsTryBody(body, jsonExc) ==
  IF ~body.json THEN Raise(jsonExc)
  ELSE IF body.response = "null" THEN Raise("AttributeError")
  ELSE IF body.response = "missing" \/ body.data = "missing" THEN Ok(<<>>)
  ELSE IF body.data = "null" THEN Raise("TypeError")
  ELSE Ok(ProjectSerials(body.items))

\* The try body of get_active_tasks_by_code, likewise.
TasksTryBody(body, jsonExc) ==
  IF ~body.json THEN Raise(jsonExc)
  ELSE IF body.response = "null" THEN Raise("AttributeError")
  ELSE IF body.response = "missing" \/ body.data = "missing" THEN Ok(<<>>)
  ELSE IF body.data = "null" THEN Raise("AttributeError")
  ELSE IF body.records = "missing" THEN Ok(<<>>)
  ELSE IF body.records = "null" THEN Raise("TypeError")
  ELSE IF \E j \in 1..Len(body.items) : ~HasKey(body.items[j], "completeState")
       THEN Raise("KeyError")
  ELSE Ok(TaskSerials(ActiveRecords(body.items)))

\* try: ... except requests.exceptions.RequestException: log, return [].
\* The result and the lines logged.
ListHandler(tried) ==
  IF tried.raised /\ IsRequestException(tried.exc)
  THEN [res |-> Ok(<<>>), logs |-> <<Log("error", "list_failed")>>]
  ELSE [res |-> tried, logs |-> <<>>]

get_fusion_projects_by_code(resp, jsonExc) ==
  ListHandler(IF PostExc(resp) # "" THEN Raise(PostExc(resp))
              ELSE ProjectsTryBody(resp.body, jsonExc))

get_active_tasks_by_code(resp, jsonExc) ==
  ListHandler(IF PostExc(resp) # "" THEN Raise(PostExc(resp))
              ELSE TasksTryBody(resp.body, jsonExc))

\* revoke_fusion_project / revoke_task: True when neither the post nor
\* raise_for_status raised, False (logged) when a RequestException was
\* caught; ret is "True", "False" or "raised".
RevokeResult(resp) ==
  IF PostExc(resp) = ""
  THEN [ret |-> "True", exc |-> "", logs |-> <<Log("info", "revoked")>>]
  ELSE IF IsRequestException(PostExc(resp))
       THEN [ret |-> "False", exc |-> "", logs |-> <<Log("error", "revoke_failed")>>]
  ELSE [ret |-> "raised", exc |-> PostExc(resp), logs |-> <<>>]

\* `if not fusion_projects:` / `if not active_tasks:`
IsEmptyListMut(l) == FALSE
IsEmptyList(l) == Len(l) = 0

\* `for project_id in fusion_projects:` -- the position visited by the
\* k-th iteration.
ForPositionMut(l, k) == Len(l) + 1 - k
ForPosition(l, k) == k

\* The loop body discards the value revoke_* returns: the loop goes on
\* whatever the outcome.
LoopGoesOnMut(ok) == ok
LoopGoesOn(ok) == TRUE

--------------------------------------------------------------------------
(* The state machine.                                                      *)

VARIABLES
  op,        \* the public method called, "none" before the call
  pc,        \* "idle", "list_wait", "loop", "act_wait", "done", "raised"
  response,  \* get_*: the response the list request got (its local)
  listRet,   \* get_*: the list returned
  ids,       \* clean_*: fusion_projects / active_tasks
  i,         \* clean_*: number of the current loop iteration
  actRet,    \* what the last revoke_* call returned: "unset", "True", "False"
  exc,       \* the exception that left the called method, "" when none
  log,       \* lines written by logger and print
  http       \* the HTTP requests and responses, in order

vars == <<op, pc, response, listRet, ids, i, actRet, exc, log, http>>

ListOps == {"get_fusion_projects_by_code", "get_active_tasks_by_code"}
RevokeOps == {"revoke_fusion_project", "revoke_task"}
CleanOps == {"clean_projects_by_code", "clean_tasks_by_code"}
ProjectOps ==
  {"get_fusion_projects_by_code", "revoke_fusion_project", "clean_projects_by_code"}

Event(ev, kind, id, pos, ok) ==
  [ev |-> ev, kind |-> kind, id |-> id, pos |-> pos, ok |-> ok]

Init ==
  /\ op = "none"
  /\ pc = "idle"
  /\ response = NoResponse
  /\ listRet = <<>>
  /\ ids = <<>>
  /\ i = 0
  /\ actRet = "unset"
  /\ exc = ""
  /\ log = <<>>
  /\ http = <<>>

\* The caller calls get_fusion_projects_by_code / get_active_tasks_by_code:
\* the method builds the request and posts it.
CallList(o) ==
  /\ pc = "idle"
  /\ o \in ListOps
  /\ op' = o
  /\ pc' = "list_wait"
  /\ http' = Append(http, Event("request", "list", JNull, 0, TRUE))
  /\ UNCHANGED <<response, listRet, ids, i, actRet, exc, log>>

\* The caller calls clean_projects_by_code / clean_tasks_by_code: the start
\* line is logged and the list method is called.
CallClean(o) ==
  /\ pc = "idle"
  /\ o \in CleanOps
  /\ op' = o
  /\ pc' = "list_wait"
  /\ log' = Append(log, Log("info", "start"))
  /\ http' = Append(http, Event("request", "list", JNull, 0, TRUE))
  /\ UNCHANGED <<response, listRet, ids, i, actRet, exc>>

\* The caller calls revoke_fusion_project(id) / revoke_task(id) directly.
CallRevoke(o, id) ==
  /\ pc = "idle"
  /\ o \in RevokeOps
  /\ op' = o
  /\ pc' = "act_wait"
  /\ http' = Append(http, Event("request", "act", id, 0, TRUE))
  /\ UNCHANGED <<response, listRet, ids, i, actRet, exc, log>>

\* The lines clean_* writes once the list is back.
CleanLogs(o, l) ==
  IF o = "clean_projects_by_code"
  THEN <<Log("print", "count")>>
       \o (IF IsEmptyList(l) THEN <<Log("info", "not_found")>> ELSE <<>>)
  ELSE IF IsEmptyList(l) THEN <<Log("info", "not_found")>>
       ELSE <<Log("print", "count")>>

\* The list request completes: the rest of get_* runs, and for clean_* the
\* code up to the loop.
ListRespond ==
  /\ pc = "list_wait"
  /\ \E resp \in ListResponses(IF op \in ProjectOps THEN ProjectDicts ELSE TaskDicts),
        jsonExc \in {"requests.JSONDecodeError", "ValueError"} :
       LET got == IF op \in ProjectOps
                  THEN get_fusion_projects_by_code(resp, jsonExc)
                  ELSE get_active_tasks_by_code(resp, jsonExc)
           res == got.res
       IN /\ http' = Append(http, Event("response", "list", JNull, 0, PostExc(resp) = ""))
          /\ IF res.raised
             THEN /\ pc' = "raised"
                  /\ exc' = res.exc
                  /\ log' = log \o got.logs
                  /\ response' = IF op \in ListOps THEN resp ELSE NoResponse
                  /\ UNCHANGED <<listRet, ids, i>>
             ELSE IF op \in ListOps
             THEN /\ pc' = "done"
                  /\ response' = resp
                  /\ listRet' = res.value
                  /\ log' = log \o got.logs
                  /\ UNCHANGED <<ids, i, exc>>
             ELSE /\ ids' = res.value
                  /\ log' = log \o got.logs \o CleanLogs(op, res.value)
                  /\ IF IsEmptyList(res.value)
                     THEN pc' = "done" /\ i' = 0
                     ELSE pc' = "loop" /\ i' = 1
                  /\ UNCHANGED <<response, listRet, exc>>
  /\ UNCHANGED <<op, actRet>>

\* The for loop is exhausted: clean_* returns.
LoopEnd ==
  /\ pc = "loop"
  /\ i > Len(ids)
  /\ pc' = "done"
  /\ UNCHANGED <<op, response, listRet, ids, i, actRet, exc, log, http>>

\* An iteration whose identifier is truthy: revoke_* is called and posts.
LoopRevoke ==
  /\ pc = "loop"
  /\ i <= Len(ids)
  /\ Truthy(ids[ForPosition(ids, i)])
  /\ pc' = "act_wait"
  /\ http' = Append(http, Event("request", "act", ids[ForPosition(ids, i)],
                               ForPosition(ids, i), TRUE))
  /\ UNCHANGED <<op, response, listRet, ids, i, actRet, exc, log>>

\* An iteration whose identifier is falsy: a warning, no call.
LoopSkip ==
  /\ pc = "loop"
  /\ i <= Len(ids)
  /\ ~Truthy(ids[ForPosition(ids, i)])
  /\ log' = Append(log, Log("warning", "missing_id"))
  /\ i' = i + 1
  /\ UNCHANGED <<op, pc, response, listRet, ids, actRet, exc, http>>

\* The revoke/abort request completes: revoke_* logs and returns; inside
\* clean_* the loop moves to the next identifier.
ActRespond ==
  /\ pc = "act_wait"
  /\ \E resp \in ActResponses :
       LET r == RevokeResult(resp)
           req == http[Len(http)]
       IN /\ http' = Append(http, Event("response", "act", req.id, req.pos,
                                        PostExc(resp) = ""))
          /\ log' = log \o r.logs
          /\ response' = IF op \in RevokeOps THEN resp ELSE response
          /\ IF r.ret = "raised"
             THEN pc' = "raised" /\ exc' = r.exc /\ UNCHANGED <<actRet, i>>
             ELSE /\ actRet' = r.ret
                  /\ exc' = exc
                  /\ IF op \in CleanOps /\ LoopGoesOn(r.ret = "True")
                     THEN pc' = "loop" /\ i' = i + 1
                     ELSE pc' = "done" /\ i' = i
  /\ UNCHANGED <<op, listRet, ids>>

Next ==
  \/ \E o \in ListOps : CallList(o)
  \/ \E o \in CleanOps : CallClean(o)
  \/ \E o \in RevokeOps, id \in SerialVals : CallRevoke(o, id)
  \/ ListRespond
  \/ LoopEnd
  \/ LoopRevoke
  \/ LoopSkip
  \/ ActRespond

Spec == Init /\ [][Next]_vars

--------------------------------------------------------------------------
(* Vocabulary of the properties, stated on the data and not through the    *)
(* operators of the model.                                                 *)

\* An identifier that is empty: None or the empty string.
EmptyId(v) == v = JNull \/ v = JStr("")

\* The events of the trace that are revoke/abort requests, by index.
ActRequests == {k \in 1..Len(http) : http[k].kind = "act" /\ http[k].ev = "request"}
ActResponsesSeen == {k \in 1..Len(http) : http[k].kind = "act" /\ http[k].ev = "response"}
ListRequests == {k \in 1..Len(http) : http[k].kind = "list" /\ http[k].ev = "request"}

Warnings == {k \in 1..Len(log) : log[k] = Log("warning", "missing_id")}
Logged(level, msg) == \E k \in 1..Len(log) : log[k] = Log(level, msg)

\* A 2xx response whose envelope is complete.
Is2xx(resp) == ~resp.err /\ resp.status >= 200 /\ resp.status < 300
GoodList(resp) ==
  /\ Is2xx(resp)
  /\ resp.body.json
  /\ resp.body.response = "present"
  /\ resp.body.data = "present"
  /\ resp.body.records = "present"

CarriesSerial(d) == \E v \in SerialVals : <<"serialNumber", v>> \in d
\* The serialNumber an entry carries, None for an entry without the field.
SerialIn(d) ==
  IF CarriesSerial(d) THEN CHOOSE v \in SerialVals : <<"serialNumber", v>> \in d
  ELSE JNull
LacksState(d) == \A c \in StateVals : <<"completeState", c>> \notin d
\* completeState == 0 as Python decides it: the number 0, or false.
StateIsZero(d) == <<"completeState", JInt(0)>> \in d \/ <<"completeState", JBool(FALSE)>> \in d

Rank(S, j) == Cardinality({k \in S : k <= j})
\* ret lists, in the order of items, the serialNumber of the entries in S.
ListsInOrder(ret, items, S) ==
  /\ Len(ret) = Cardinality(S)
  /\ \A j \in S : ret[Rank(S, j)] = SerialIn(items[j])

--------------------------------------------------------------------------
\* C1: in a clean operation no revoke/abort request ever carries an empty
\* identifier, and once the operation has ended the requests issued are for
\* exactly the positions of the list that hold a non-empty identifier, each
\* with the identifier found there, while every empty position has produced
\* one "missing id" warning.
C1_RevokeExactlyNonEmpty ==
  op \in CleanOps =>
    /\ \A k \in ActRequests :
         /\ ~EmptyId(http[k].id)
         /\ http[k].pos \in 1..Len(ids)
         /\ http[k].id = ids[http[k].pos]
    /\ pc = "done" =>
         /\ {http[k].pos : k \in ActRequests} = {p \in 1..Len(ids) : ~EmptyId(ids[p])}
         /\ Cardinality(Warnings) = Cardinality({p \in 1..Len(ids) : EmptyId(ids[p])})

C1_Witness ==
  /\ op = "clean_projects_by_code"
  /\ pc = "done"
  /\ ids = <<JStr("A"), JStr(""), JStr("B")>>
  /\ Cardinality(ActRequests) = 2
  /\ Cardinality(Warnings) = 1

\* C2: in a clean operation a failed revoke/abort never stops the loop: the
\* operation never ends with an exception once the list is back, it can
\* always take its next step, and when it has ended every position holding
\* a non-empty identifier was requested exactly once and answered exactly
\* once, whatever the outcomes were.
C2_ContinueOnError ==
  (op \in CleanOps /\ Len(ids) > 0) =>
    /\ pc # "raised" /\ exc = ""
    /\ pc \in {"loop", "act_wait", "done"}
    /\ pc = "loop" => i \in 1..(Len(ids) + 1)
    /\ pc \in {"loop", "act_wait"} => ENABLED Next
    /\ pc = "done" =>
         \A p \in 1..Len(ids) :
           LET n == IF EmptyId(ids[p]) THEN 0 ELSE 1
           IN /\ Cardinality({k \in ActRequests : http[k].pos = p}) = n
              /\ Cardinality({k \in ActResponsesSeen : http[k].pos = p}) = n

C2_Witness ==
  /\ op = "clean_tasks_by_code"
  /\ pc = "done"
  /\ ids = <<JStr("A"), JStr("B")>>
  /\ Len(http) = 6
  /\ ~http[4].ok
  /\ http[6].ok

\* C3: every failure of a list or act request -- transport error, non-2xx
\* status, a body that is not JSON, a missing or null level of the
\* envelope, a workflow record without completeState -- ends in an empty
\* list (list operations) or False (act operations), never in an exception.
C3_FailuresNeverPropagate ==
  /\ (op \in ListOps /\ pc \in {"done", "raised"}) =>
       /\ pc = "done" /\ exc = ""
       /\ (~GoodList(response)
           \/ (op = "get_active_tasks_by_code"
               /\ \E j \in 1..Len(response.body.items) : LacksState(response.body.items[j])))
          => listRet = <<>>
  /\ (op \in RevokeOps /\ pc \in {"done", "raised"}) =>
       /\ pc = "done" /\ exc = ""
       /\ ~Is2xx(response) => actRet = "False"

\* C4 (as claimed): get_active_tasks_by_code never returns an empty
\* identifier.
C4_NeverReturnsFalsy ==
  (op = "get_active_tasks_by_code" /\ pc = "done") =>
    \A k \in 1..Len(listRet) : ~EmptyId(listRet[k])

\* C4 (amended): get_active_tasks_by_code returns one entry for every record
\* with completeState == 0, empty identifiers included: the list is as long
\* as the number of such records, and it holds as many empty entries (None
\* or "") as there are such records whose serialNumber is missing, null or
\* empty.
C4_FalsyKept ==
  (op = "get_active_tasks_by_code" /\ pc = "done" /\ GoodList(response)) =>
    LET items == response.body.items
        active == {j \in 1..Len(items) : StateIsZero(items[j])}
    IN /\ Len(listRet) = Cardinality(active)
       /\ Cardinality({k \in 1..Len(listRet) : EmptyId(listRet[k])})
            = Cardinality({j \in active : EmptyId(SerialIn(items[j]))})

C4_Witness ==
  /\ op = "get_active_tasks_by_code"
  /\ pc = "done"
  /\ response.status = 200
  /\ response.body.items =
       <<{<<"completeState", JInt(0)>>},
         {<<"serialNumber", JStr("")>>, <<"completeState", JInt(0)>>},
         {<<"serialNumber", JStr("A")>>, <<"completeState", JInt(0)>>}>>
  /\ listRet = <<JNull, JStr(""), JStr("A")>>

\* C5: revoke_fusion_project and revoke_task return True exactly when the
\* call reported a 2xx status, False for every other outcome, and never raise.
C5_TrueExactlyOn2xx ==
  (op \in RevokeOps /\ pc \in {"done", "raised"}) =>
    /\ pc = "done" /\ exc = ""
    /\ actRet = (IF Is2xx(response) THEN "True" ELSE "False")

\* C6: on a 2xx response with a complete envelope from which it returns,
\* get_active_tasks_by_code returns, in input order, the serialNumber of
\* exactly the records whose completeState equals 0 (Python ==); a record
\* with another completeState contributes nothing wherever it sits.
C6_OnlyStateZeroInOrder ==
  (op = "get_active_tasks_by_code" /\ pc = "done" /\ GoodList(response)) =>
    LET items == response.body.items
    IN ListsInOrder(listRet, items, {j \in 1..Len(items) : StateIsZero(items[j])})

C6_Witness ==
  /\ op = "get_active_tasks_by_code"
  /\ pc = "done"
  /\ response.status = 200
  /\ response.body.items =
       <<{<<"serialNumber", JStr("B")>>, <<"completeState", JInt(1)>>},
         {<<"serialNumber", JStr("A")>>, <<"completeState", JInt(0)>>},
         {<<"serialNumber", JStr("B")>>, <<"completeState", JInt(0)>>}>>
  /\ listRet = <<JStr("A"), JStr("B")>>

\* C7: on a 2xx response with a complete envelope, get_fusion_projects_by_code
\* returns, in the order of the response, the serialNumber of exactly the
\* entries that carry the field; an entry without it contributes nothing.
C7_ProjectsWithFieldInOrder ==
  (op = "get_fusion_projects_by_code" /\ pc \in {"done", "raised"} /\ GoodList(response)) =>
    LET items == response.body.items
    IN /\ pc = "done"
       /\ ListsInOrder(listRet, items, {j \in 1..Len(items) : CarriesSerial(items[j])})

C7_Witness ==
  /\ op = "get_fusion_projects_by_code"
  /\ pc = "done"
  /\ response.status = 200
  /\ response.body.items =
       <<{<<"serialNumber", JStr("B")>>}, {}, {<<"serialNumber", JStr("A")>>}>>
  /\ listRet = <<JStr("B"), JStr("A")>>

\* C8: when the list step of a clean operation yields an empty list, because
\* nothing matched or because the list request failed, the operation has
\* ended normally, has issued no revoke/abort request and has logged
\* "not found"; and a failed list request always yields the empty list.
C8_EmptyListNoRevoke ==
  (op \in CleanOps /\ pc \notin {"idle", "list_wait", "raised"}) =>
    /\ Logged("error", "list_failed") => ids = <<>>
    /\ ids = <<>> =>
         /\ pc = "done" /\ exc = ""
         /\ ActRequests = {}
         /\ log[Len(log)] = Log("info", "not_found")

C8_Witness ==
  /\ op = "clean_projects_by_code"
  /\ pc = "done"
  /\ ids = <<>>
  /\ Logged("error", "list_failed")
  /\ Logged("info", "not_found")
  /\ ActRequests = {}

\* C9: a list request whose HTTP call raises a transport-level error returns
\* the empty list and logs an error; nothing is propagated to the caller.
C9_TransportErrorEmptyList ==
  (op \in ListOps /\ pc \in {"done", "raised"} /\ response.err) =>
    /\ pc = "done" /\ exc = ""
    /\ listRet = <<>>
    /\ log = <<Log("error", "list_failed")>>

C9_Witness ==
  /\ op = "get_active_tasks_by_code"
  /\ pc = "done"
  /\ response = TransportError
  /\ listRet = <<>>

\* C10: in a clean operation the trace starts with the one list request and
\* its response, requests and responses alternate (never two requests in
\* flight), each response answers the request just before it, and the
\* revoke/abort requests visit the list positions in increasing order.
C10_ListFirstThenInOrder ==
  op \in CleanOps =>
    /\ ListRequests = {1}
    /\ \A k \in 1..Len(http) :
         /\ http[k].ev = (IF k % 2 = 1 THEN "request" ELSE "response")
         /\ http[k].kind = (IF k <= 2 THEN "list" ELSE "act")
         /\ (k % 2 = 0) => (http[k].pos = http[k - 1].pos /\ http[k].id = http[k - 1].id)
    /\ \A k, m \in ActRequests : k < m => http[k].pos < http[m].pos
    /\ (pc = "act_wait") = (Len(http) > 2 /\ Len(http) % 2 = 1)

C10_Witness ==
  /\ op = "clean_tasks_by_code"
  /\ pc = "done"
  /\ ids = <<JStr("B"), JNull, JStr("A")>>
  /\ Len(http) = 6
  /\ http[3].id = JStr("B")
  /\ http[5].id = JStr("A")

====
